---- MODULE Spec2Model ----
(***************************************************************************)
(* State-machine model of the ZHA general channels                         *)
(* (homeassistant/components/zha/core/channels/general.py).                *)
(*                                                                         *)
(* One specification per channel class:                                    *)
(*   SpecOnOff  - OnOffChannel: commands, reports, auto-off timer,         *)
(*                initialize / update coroutines, device removal           *)
(*   SpecLevel  - LevelControlChannel: commands and reports                *)
(*   SpecPower  - PowerConfigurationChannel: reports and async_update      *)
(*   SpecPoll   - PollControl: async_configure, checkin command and        *)
(*                check_in_response tasks                                  *)
(*   SpecInit   - async_configure / async_initialize / async_update of the *)
(*                four channels that override async_initialize             *)
(***************************************************************************)
EXTENDS Integers, Sequences, FiniteSets, TLC

VARIABLES
    adapter,        \* which channel class the instance is
    state,          \* OnOffChannel._state
    off_listener,   \* OnOffChannel._off_listener: NoListener or the id of a scheduled call
    timers,         \* the event loop's outstanding async_call_later calls: [id, due]
    next_id,        \* id the next async_call_later call gets
    fired,          \* ids of the scheduled calls that have run
    cancelled,      \* ids of the scheduled calls that were cancelled
    now,            \* event-loop clock, in milliseconds
    destroyed,      \* the owning device has been removed
    pc,             \* position of the running configure / initialize / update coroutine
    via,            \* how the running async_initialize was entered
    from_cache_arg, \* the from_cache argument of the running async_initialize
    reads,          \* attribute reads issued so far by the running coroutine
    power_source,   \* BasicChannel._power_source
    tasks,          \* PollControl: background tasks made by create_catching_task
    net,            \* PollControl: requests sent and acknowledgments completed, in order
    events,         \* PollControl: the zha_send_event calls, in order
    signals,        \* signals sent by the latest handler, in order
    lastEvent       \* the latest handler that ran, its arguments, _state before it

vars == << adapter, state, off_listener, timers, next_id, fired, cancelled, now,
           destroyed, pc, via, from_cache_arg, reads, power_source, tasks, net,
           events, signals, lastEvent >>

timerVars == << off_listener, timers, next_id, fired, cancelled >>
coroVars  == << pc, via, from_cache_arg, reads >>
pollVars  == << tasks, net, events >>

(***************************************************************************)
(* Bounds of the model                                                     *)
(***************************************************************************)
MaxTimers == 2
MaxTime == 6000
ClockStep == 2000
MaxPollCalls == 2
MaxTsn == 2
MaxValue == 20

(***************************************************************************)
(* Python values: None, bool and int keep their type, as the signal        *)
(* payload carries the raw value while _state carries bool(value).         *)
(***************************************************************************)
PyNone == [t |-> "none", v |-> 0]
PyInt(n) == [t |-> "int", v |-> n]
PyBool(b) == [t |-> "bool", v |-> IF b THEN 1 ELSE 0]
PyTrue == PyBool(TRUE)
PyFalse == PyBool(FALSE)

\* Python truth value of None, a bool or an int
Truthy(x) == x.t # "none" /\ x.v # 0

\* bool(x)
bool(x) == PyBool(Truthy(x))

Min(S) == CHOOSE x \in S : \A y \in S : x <= y

Event(op, a0, a1) == [op |-> op, a0 |-> a0, a1 |-> a1, pre |-> state]

(***************************************************************************)
(* Signals                                                                 *)
(***************************************************************************)
SIGNAL_ATTR_UPDATED == "attribute_updated"
SIGNAL_MOVE_LEVEL == "move_level"
SIGNAL_SET_LEVEL == "set_level"
SIGNAL_STATE_ATTR == "update_state_attribute"

\* self.async_send_signal(f"{self.unique_id}_{kind}", *payload)
Signal(kind, payload) == [kind |-> kind, payload |-> payload]

(***************************************************************************)
(* OnOffChannel                                                            *)
(***************************************************************************)
ON_OFF == 0
NoListener == 0

OnOffCommands == {"off", "off_with_effect", "on", "on_with_recall_global_scene",
                  "on_with_timed_off", "toggle", "off_wait"}
AcceptFlags == {0, 1, 2}
OnTimes == {0, 20, 50}
OnOffAttrIds == {0, 16384}
ReportValues == {PyInt(0), PyInt(1)}
ReadResults == {PyNone, PyInt(0), PyInt(1)}

\* attribute_updated: the signals it sends
attribute_updated_signals(attrid, value) ==
    IF attrid = ON_OFF
    THEN << Signal(SIGNAL_ATTR_UPDATED, << attrid, "on_off", value >>) >>
    ELSE << >>

\* attribute_updated: _state after it
attribute_updated_state(attrid, value, st) ==
    IF attrid = ON_OFF THEN bool(value) ELSE st

\* 0 is always accept, 1 is only accept when already on
should_accept_mut(accept, st) == accept = 0 \/ accept = 1

should_accept(accept, st) == accept = 0 \/ (accept = 1 /\ Truthy(st))

\* not bool(self._state)
toggle_value_mut(st) == bool(st)

toggle_value(st) == PyBool(~Truthy(st))

\* the delay handed to async_call_later: on_time / 10 seconds, in milliseconds
call_later_delay_mut(on_time) == on_time * 1000

call_later_delay(on_time) == (on_time * 1000) \div 10

\* if self._off_listener is not None: self._off_listener()
cancel_listener_mut(listener, ts) == ts

cancel_listener(listener, ts) ==
    IF listener # NoListener THEN { t \in ts : t.id # listener } ELSE ts

\* the value cluster_command hands to attribute_updated(ON_OFF, .), PyNone when
\* the command does not call it
cluster_command_value(cmd, a0, st) ==
    IF cmd \in {"off", "off_with_effect"} THEN PyFalse
    ELSE IF cmd \in {"on", "on_with_recall_global_scene"} THEN PyTrue
    ELSE IF cmd = "on_with_timed_off"
         THEN IF should_accept(a0, st) THEN PyTrue ELSE PyNone
    ELSE IF cmd = "toggle" THEN toggle_value(st)
    ELSE PyNone

\* whether the command reaches the cancel-and-reschedule block
reschedules_mut(cmd, a0, st) ==
    \/ cmd = "on_with_timed_off" /\ should_accept(a0, st)
    \/ cmd \in {"off", "off_with_effect"}

reschedules(cmd, a0, st) == cmd = "on_with_timed_off" /\ should_accept(a0, st)

OnOffChannel_cluster_command(cmd, a0, a1) ==
    LET value == cluster_command_value(cmd, a0, state)
        resched == reschedules(cmd, a0, state)
        schedule == resched /\ cmd = "on_with_timed_off" /\ a1 > 0
        kept == IF resched THEN cancel_listener(off_listener, timers) ELSE timers
    IN  /\ adapter = "onoff"
        /\ ~destroyed
        /\ schedule => next_id <= MaxTimers
        /\ lastEvent' = Event(cmd, a0, a1)
        /\ IF value # PyNone
           THEN /\ signals' = attribute_updated_signals(ON_OFF, value)
                /\ state' = attribute_updated_state(ON_OFF, value, state)
           ELSE /\ signals' = << >>
                /\ state' = state
        /\ cancelled' = IF resched /\ off_listener # NoListener
                        THEN cancelled \cup {off_listener} ELSE cancelled
        /\ IF schedule
           THEN /\ timers' = kept \cup {[id |-> next_id,
                                         due |-> now + call_later_delay(a1)]}
                /\ off_listener' = next_id
                /\ next_id' = next_id + 1
           ELSE /\ timers' = kept
                /\ off_listener' = IF resched THEN NoListener ELSE off_listener
                /\ next_id' = next_id
        /\ UNCHANGED << adapter, fired, now, destroyed, coroVars, power_source, pollVars >>

\* the event loop runs a scheduled set_to_off when its time has come
OnOffChannel_set_to_off ==
    \E t \in timers :
        /\ adapter = "onoff"
        /\ t.due <= now
        /\ timers' = timers \ {t}
        /\ fired' = fired \cup {t.id}
        /\ off_listener' = NoListener
        /\ signals' = attribute_updated_signals(ON_OFF, PyFalse)
        /\ state' = attribute_updated_state(ON_OFF, PyFalse, state)
        /\ lastEvent' = Event("set_to_off", t.id, t.due)
        /\ UNCHANGED << adapter, next_id, cancelled, now, destroyed, coroVars,
                        power_source, pollVars >>

\* the transport layer delivers an attribute report
OnOffChannel_attribute_updated ==
    \E attrid \in OnOffAttrIds, value \in ReportValues :
        /\ adapter = "onoff"
        /\ ~destroyed
        /\ signals' = attribute_updated_signals(attrid, value)
        /\ state' = attribute_updated_state(attrid, value, state)
        /\ lastEvent' = Event("attribute_updated", attrid, value.v)
        /\ UNCHANGED << adapter, timerVars, now, destroyed, coroVars, power_source,
                        pollVars >>

\* the owning device is removed: OnOffChannel defines nothing that runs then
Teardown ==
    /\ adapter = "onoff"
    /\ ~destroyed
    /\ destroyed' = TRUE
    /\ signals' = << >>
    /\ lastEvent' = Event("teardown", 0, 0)
    /\ UNCHANGED << adapter, state, timerVars, now, coroVars, power_source, pollVars >>

\* time passes, up to the next scheduled call
Tick ==
    /\ adapter = "onoff"
    /\ now < MaxTime
    /\ \A t \in timers : t.due > now
    /\ now' = Min({now + ClockStep, MaxTime} \cup { t.due : t \in timers })
    /\ signals' = << >>
    /\ lastEvent' = Event("tick", 0, 0)
    /\ UNCHANGED << adapter, state, timerVars, destroyed, coroVars, power_source,
                    pollVars >>

(***************************************************************************)
(* async_configure / async_initialize / async_update coroutines            *)
(***************************************************************************)
Adapters == {"basic", "level", "onoff", "power"}
PowerSourceResults == {PyNone} \cup { PyInt(n) : n \in 0..6 }

\* one get_attribute_value / get_attributes call
Read(attrs, from_cache, by) == [attrs |-> attrs, from_cache |-> from_cache, by |-> by]

\* REPORT_CONFIG of each channel: the attributes it declares
REPORT_CONFIG(a) ==
    IF a = "onoff" THEN << "on_off" >>
    ELSE IF a = "level" THEN << "current_level" >>
    ELSE IF a = "power" THEN << "battery_voltage", "battery_percentage_remaining" >>
    ELSE << >>

\* ZigbeeChannel.async_initialize(from_cache): reads the declared attributes
BaseInitializeReads(a, from_cache) ==
    IF Len(REPORT_CONFIG(a)) > 0
    THEN << Read(REPORT_CONFIG(a), from_cache, "super") >>
    ELSE << >>

\* PowerConfigurationChannel.async_read_state(from_cache)
async_read_state(from_cache) ==
    Read(<< "battery_size", "battery_percentage_remaining", "battery_voltage",
            "battery_quantity" >>, from_cache, "own")

\* the first await of async_initialize(from_cache), per channel class
async_initialize_begin(from_cache) ==
    /\ from_cache_arg' = from_cache
    /\ IF adapter = "basic"
       THEN /\ reads' = << Read(<< "power_source" >>, from_cache, "own") >>
            /\ pc' = "basic_read"
       ELSE IF adapter = "level"
       THEN /\ reads' = << Read(<< "current_level" >>, from_cache, "own") >>
            /\ pc' = "level_read"
       ELSE IF adapter = "power"
       THEN /\ reads' = << async_read_state(from_cache) >>
            /\ pc' = "power_read"
       ELSE /\ reads' = BaseInitializeReads(adapter, from_cache)
            /\ pc' = "onoff_super"

\* a caller awaits channel.async_initialize(from_cache)
Call_async_initialize ==
    \E from_cache \in BOOLEAN :
        /\ pc = "idle"
        /\ ~destroyed
        /\ via' = "initialize"
        /\ async_initialize_begin(from_cache)
        /\ signals' = << >>
        /\ lastEvent' = Event("async_initialize", IF from_cache THEN 1 ELSE 0, 0)
        /\ UNCHANGED << adapter, state, timerVars, now, destroyed, power_source,
                        pollVars >>

\* BasicChannel.async_configure: await super().async_configure()
BasicChannel_async_configure ==
    /\ adapter = "basic"
    /\ pc = "idle"
    /\ pc' = "basic_configure"
    /\ via' = "configure"
    /\ reads' = << >>
    /\ signals' = << >>
    /\ lastEvent' = Event("async_configure", 0, 0)
    /\ UNCHANGED << adapter, state, timerVars, now, destroyed, from_cache_arg,
                    power_source, pollVars >>

\* BasicChannel.async_configure: await self.async_initialize(False)
BasicChannel_async_configure_initialize ==
    /\ adapter = "basic"
    /\ pc = "basic_configure"
    /\ async_initialize_begin(FALSE)
    /\ signals' = << >>
    /\ lastEvent' = Event("async_initialize", 0, 0)
    /\ UNCHANGED << adapter, state, timerVars, now, destroyed, via, power_source,
                    pollVars >>

\* BasicChannel.async_initialize: power_source read returns, super() is awaited
BasicChannel_async_initialize_read ==
    \E result \in PowerSourceResults :
        /\ adapter = "basic"
        /\ pc = "basic_read"
        /\ power_source' = IF result # PyNone THEN result ELSE power_source
        /\ reads' = reads \o BaseInitializeReads(adapter, from_cache_arg)
        /\ pc' = "super"
        /\ signals' = << >>
        /\ lastEvent' = Event("read_done", result.v, 0)
        /\ UNCHANGED << adapter, state, timerVars, now, destroyed, via,
                        from_cache_arg, pollVars >>

\* LevelControlChannel.async_initialize: current_level read returns, super() is awaited
LevelControlChannel_async_initialize_read ==
    /\ adapter = "level"
    /\ pc = "level_read"
    /\ reads' = reads \o BaseInitializeReads(adapter, from_cache_arg)
    /\ pc' = "super"
    /\ signals' = << >>
    /\ lastEvent' = Event("read_done", 0, 0)
    /\ UNCHANGED << adapter, state, timerVars, now, destroyed, via, from_cache_arg,
                    power_source, pollVars >>

\* PowerConfigurationChannel.async_initialize: async_read_state returns, super() is awaited
PowerConfigurationChannel_async_initialize_read ==
    /\ adapter = "power"
    /\ pc = "power_read"
    /\ reads' = reads \o BaseInitializeReads(adapter, from_cache_arg)
    /\ pc' = "super"
    /\ signals' = << >>
    /\ lastEvent' = Event("read_done", 0, 0)
    /\ UNCHANGED << adapter, state, timerVars, now, destroyed, via, from_cache_arg,
                    power_source, pollVars >>

\* super().async_initialize returns as the last statement: the coroutine ends
async_initialize_return ==
    /\ pc = "super"
    /\ pc' = "idle"
    /\ via' = "none"
    /\ reads' = << >>
    /\ signals' = << >>
    /\ lastEvent' = Event("initialize_return", 0, 0)
    /\ UNCHANGED << adapter, state, timerVars, now, destroyed, from_cache_arg,
                    power_source, pollVars >>

\* OnOffChannel.async_initialize: super() returned, the on_off read is issued
OnOffChannel_async_initialize_read ==
    /\ adapter = "onoff"
    /\ pc = "onoff_super"
    /\ reads' = Append(reads, Read(<< "on_off" >>, TRUE, "own"))
    /\ pc' = "onoff_read"
    /\ signals' = << >>
    /\ lastEvent' = Event("initialize_read", 0, 0)
    /\ UNCHANGED << adapter, state, timerVars, now, destroyed, via, from_cache_arg,
                    power_source, pollVars >>

\* if state is not None: self._state = bool(state)
read_state(result, st) == IF result # PyNone THEN bool(result) ELSE st

\* OnOffChannel.async_initialize: the on_off read returns, the coroutine ends
OnOffChannel_async_initialize_done ==
    \E result \in ReadResults :
        /\ adapter = "onoff"
        /\ pc = "onoff_read"
        /\ state' = read_state(result, state)
        /\ pc' = "idle"
        /\ via' = "none"
        /\ reads' = << >>
        /\ signals' = << >>
        /\ lastEvent' = Event("initialize_done", result.v, 0)
        /\ UNCHANGED << adapter, timerVars, now, destroyed, from_cache_arg,
                        power_source, pollVars >>

\* OnOffChannel.async_update, up to its first await
OnOffChannel_async_update ==
    \E is_client \in BOOLEAN, is_mains_powered \in BOOLEAN :
        /\ adapter = "onoff"
        /\ pc = "idle"
        /\ ~destroyed
        /\ IF is_client
           THEN /\ pc' = "idle"
                /\ reads' = << >>
           ELSE /\ pc' = "update_read"
                /\ reads' = << Read(<< "on_off" >>, ~is_mains_powered, "own") >>
        /\ via' = "none"
        /\ signals' = << >>
        /\ lastEvent' = Event("async_update", IF is_client THEN 1 ELSE 0,
                              IF is_mains_powered THEN 1 ELSE 0)
        /\ UNCHANGED << adapter, state, timerVars, now, destroyed, from_cache_arg,
                        power_source, pollVars >>

\* OnOffChannel.async_update: the read returns, super().async_update() is awaited
OnOffChannel_async_update_done ==
    \E result \in ReadResults :
        /\ adapter = "onoff"
        /\ pc = "update_read"
        /\ state' = read_state(result, state)
        /\ pc' = "update_super"
        /\ signals' = << >>
        /\ lastEvent' = Event("update_done", result.v, 0)
        /\ UNCHANGED << adapter, timerVars, now, destroyed, via, from_cache_arg,
                        reads, power_source, pollVars >>

\* OnOffChannel.async_update: super().async_update() returns, the coroutine ends
OnOffChannel_async_update_return ==
    /\ adapter = "onoff"
    /\ pc = "update_super"
    /\ pc' = "idle"
    /\ reads' = << >>
    /\ signals' = << >>
    /\ lastEvent' = Event("update_return", 0, 0)
    /\ UNCHANGED << adapter, state, timerVars, now, destroyed, via, from_cache_arg,
                    power_source, pollVars >>

\* PowerConfigurationChannel.async_update: await self.async_read_state(True)
PowerConfigurationChannel_async_update ==
    /\ adapter = "power"
    /\ pc = "idle"
    /\ ~destroyed
    /\ pc' = "power_update_read"
    /\ via' = "update"
    /\ reads' = << async_read_state(TRUE) >>
    /\ signals' = << >>
    /\ lastEvent' = Event("async_update", 0, 0)
    /\ UNCHANGED << adapter, state, timerVars, now, destroyed, from_cache_arg,
                    power_source, pollVars >>

\* PowerConfigurationChannel.async_update: the read returns, the coroutine ends
PowerConfigurationChannel_async_update_return ==
    /\ adapter = "power"
    /\ pc = "power_update_read"
    /\ pc' = "idle"
    /\ via' = "none"
    /\ reads' = << >>
    /\ signals' = << >>
    /\ lastEvent' = Event("update_return", 0, 0)
    /\ UNCHANGED << adapter, state, timerVars, now, destroyed, from_cache_arg,
                    power_source, pollVars >>

InitCommon ==
    /\ state = PyNone
    /\ off_listener = NoListener
    /\ timers = {}
    /\ next_id = 1
    /\ fired = {}
    /\ cancelled = {}
    /\ now = 0
    /\ destroyed = FALSE
    /\ pc = "idle"
    /\ via = "none"
    /\ from_cache_arg = FALSE
    /\ reads = << >>
    /\ power_source = PyNone
    /\ tasks = << >>
    /\ net = << >>
    /\ events = << >>
    /\ signals = << >>
    /\ lastEvent = [op |-> "init", a0 |-> 0, a1 |-> 0, pre |-> PyNone]

InitOnOff == adapter = "onoff" /\ InitCommon

NextOnOff ==
    \/ \E cmd \in OnOffCommands, a0 \in AcceptFlags, a1 \in OnTimes :
           /\ cmd # "on_with_timed_off" => a0 = 0 /\ a1 = 0
           /\ OnOffChannel_cluster_command(cmd, a0, a1)
    \/ OnOffChannel_set_to_off
    \/ OnOffChannel_attribute_updated
    \/ Call_async_initialize
    \/ OnOffChannel_async_initialize_read
    \/ OnOffChannel_async_initialize_done
    \/ OnOffChannel_async_update
    \/ OnOffChannel_async_update_done
    \/ OnOffChannel_async_update_return
    \/ Teardown
    \/ Tick

SpecOnOff == InitOnOff /\ [][NextOnOff]_vars

InitInit == adapter \in Adapters /\ InitCommon

NextInit ==
    \/ Call_async_initialize
    \/ BasicChannel_async_configure
    \/ BasicChannel_async_configure_initialize
    \/ BasicChannel_async_initialize_read
    \/ LevelControlChannel_async_initialize_read
    \/ PowerConfigurationChannel_async_initialize_read
    \/ async_initialize_return
    \/ OnOffChannel_async_initialize_read
    \/ OnOffChannel_async_initialize_done
    \/ OnOffChannel_async_update
    \/ OnOffChannel_async_update_done
    \/ OnOffChannel_async_update_return
    \/ PowerConfigurationChannel_async_update
    \/ PowerConfigurationChannel_async_update_return

SpecInit == InitInit /\ [][NextInit]_vars

(***************************************************************************)
(* LevelControlChannel                                                     *)
(***************************************************************************)
CURRENT_LEVEL == 0

LevelCommands == {"move_to_level", "move_to_level_with_on_off", "move",
                  "move_with_on_off", "step", "step_with_on_off", "stop"}
LevelArg0 == {0, 1, 2, 255}
LevelArg1 == {0, 1, 10, 20, 255}
LevelAttrIds == {0, 17}
LevelValues == {0, 128, 254}

\* the value a move command dispatches
move_value(a0, a1) ==
    LET rate == IF a0 = 255 THEN 10 ELSE a1
    IN  IF a0 # 0 THEN -rate ELSE rate

\* the value a step command dispatches
step_value(a0, a1) == IF a0 # 0 THEN -a1 ELSE a1

\* dispatch_level_change(command, level)
dispatch_level_change(command, level) == << Signal(command, << level >>) >>

\* LevelControlChannel.cluster_command: the signals it sends
level_command_signals(cmd, a0, a1) ==
    IF cmd \in {"move_to_level", "move_to_level_with_on_off"}
    THEN dispatch_level_change(SIGNAL_SET_LEVEL, a0)
    ELSE IF cmd \in {"move", "move_with_on_off"}
    THEN dispatch_level_change(SIGNAL_MOVE_LEVEL, move_value(a0, a1))
    ELSE IF cmd \in {"step", "step_with_on_off"}
    THEN dispatch_level_change(SIGNAL_MOVE_LEVEL, step_value(a0, a1))
    ELSE << >>

LevelControlChannel_cluster_command ==
    \E cmd \in LevelCommands, a0 \in LevelArg0, a1 \in LevelArg1 :
        /\ adapter = "level"
        /\ signals' = level_command_signals(cmd, a0, a1)
        /\ lastEvent' = Event(cmd, a0, a1)
        /\ UNCHANGED << adapter, state, timerVars, now, destroyed, coroVars,
                        power_source, pollVars >>

LevelControlChannel_attribute_updated ==
    \E attrid \in LevelAttrIds, value \in LevelValues :
        /\ adapter = "level"
        /\ signals' = IF attrid = CURRENT_LEVEL
                      THEN dispatch_level_change(SIGNAL_SET_LEVEL, value)
                      ELSE << >>
        /\ lastEvent' = Event("attribute_updated", attrid, value)
        /\ UNCHANGED << adapter, state, timerVars, now, destroyed, coroVars,
                        power_source, pollVars >>

InitLevel == adapter = "level" /\ InitCommon

NextLevel ==
    \/ LevelControlChannel_cluster_command
    \/ LevelControlChannel_attribute_updated

SpecLevel == InitLevel /\ [][NextLevel]_vars

(***************************************************************************)
(* PowerConfigurationChannel                                               *)
(***************************************************************************)
\* zigpy's PowerConfiguration attribute table: id -> name
PowerAttributes ==
    (32 :> "battery_voltage") @@ (33 :> "battery_percentage_remaining") @@
    (49 :> "battery_size") @@ (51 :> "battery_quantity") @@
    (62 :> "battery_alarm_state")

NoAttr == -1
PowerAttrIds == {32, 33, 49, 51, 62, 4660}
PowerValues == 0..MaxValue

\* self.cluster.attridx.get(attr)
attridx(attr) ==
    IF \E id \in DOMAIN PowerAttributes : PowerAttributes[id] = attr
    THEN CHOOSE id \in DOMAIN PowerAttributes : PowerAttributes[id] = attr
    ELSE NoAttr

\* self.cluster.attributes.get(attrid, [attrid])[0]: the name, or the id itself
attribute_name(attrid) ==
    IF attrid \in DOMAIN PowerAttributes
    THEN [t |-> "str", s |-> PowerAttributes[attrid], v |-> 0]
    ELSE [t |-> "int", s |-> "", v |-> attrid]

\* self._report_config[1].get("attr"), resolved to an attribute id
primary_attr_id == attridx(REPORT_CONFIG("power")[2])

power_attribute_updated_mut(attrid, value) ==
    (IF attrid = primary_attr_id
     THEN << Signal(SIGNAL_ATTR_UPDATED, << attrid, attribute_name(attrid), value >>) >>
     ELSE << >>)
    \o << Signal(SIGNAL_STATE_ATTR, << attribute_name(attrid), value >>) >>

\* PowerConfigurationChannel.attribute_updated: the signals it sends
power_attribute_updated(attrid, value) ==
    IF attrid = primary_attr_id
    THEN << Signal(SIGNAL_ATTR_UPDATED, << attrid, attribute_name(attrid), value >>) >>
    ELSE << Signal(SIGNAL_STATE_ATTR, << attribute_name(attrid), value >>) >>

PowerConfigurationChannel_attribute_updated ==
    \E attrid \in PowerAttrIds, value \in PowerValues :
        /\ adapter = "power"
        /\ signals' = power_attribute_updated(attrid, value)
        /\ lastEvent' = Event("attribute_updated", attrid, value)
        /\ UNCHANGED << adapter, state, timerVars, now, destroyed, coroVars,
                        power_source, pollVars >>

InitPower == adapter = "power" /\ InitCommon

NextPower ==
    \/ PowerConfigurationChannel_attribute_updated
    \/ PowerConfigurationChannel_async_update
    \/ PowerConfigurationChannel_async_update_return

SpecPower == InitPower /\ [][NextPower]_vars

(***************************************************************************)
(* PollControl                                                             *)
(***************************************************************************)
CHECKIN_INTERVAL == 55 * 60 * 4
CHECKIN_FAST_POLL_TIMEOUT == 2 * 4
LONG_POLL == 6 * 4

PollCommandIds == {0, 1}
Tsns == 1..MaxTsn

\* self.cluster.client_commands.get(command_id, [command_id])[0]
client_command_name(command_id) ==
    IF command_id = 0
    THEN [t |-> "str", s |-> "checkin", v |-> 0]
    ELSE [t |-> "int", s |-> "", v |-> command_id]

Request(task, what, args) == [task |-> task, ev |-> what, args |-> args]

\* what a check_in_response task sends before its first suspension
first_requests_mut(task, tsn) ==
    << Request(task, "checkin_response", << TRUE, CHECKIN_FAST_POLL_TIMEOUT, tsn >>),
       Request(task, "set_long_poll_interval", << LONG_POLL >>) >>

first_requests(task, tsn) ==
    << Request(task, "checkin_response", << TRUE, CHECKIN_FAST_POLL_TIMEOUT, tsn >>) >>

\* which commands spawn a check_in_response task
spawns_task(name) == name.s = "checkin"

\* the number of async_configure calls so far
Configures == Cardinality({ j \in DOMAIN net : net[j].ev = "write_attributes" })

\* PollControl.async_configure: await self.cluster.write_attributes(...)
PollControl_async_configure ==
    /\ adapter = "poll"
    /\ pc = "idle"
    /\ Len(events) + Configures < MaxPollCalls
    /\ pc' = "poll_write"
    /\ net' = Append(net, Request(0, "write_attributes", << CHECKIN_INTERVAL >>))
    /\ signals' = << >>
    /\ lastEvent' = Event("async_configure", 0, 0)
    /\ UNCHANGED << adapter, state, timerVars, now, destroyed, via, from_cache_arg,
                    reads, power_source, tasks, events >>

\* PollControl.async_configure: the write returns, or raises TimeoutError or
\* ZigbeeException, which is caught; super().async_configure() is awaited
PollControl_async_configure_written ==
    \E ok \in BOOLEAN :
        /\ adapter = "poll"
        /\ pc = "poll_write"
        /\ pc' = "poll_configure_super"
        /\ signals' = << >>
        /\ lastEvent' = Event("configure_written", IF ok THEN 1 ELSE 0, 0)
        /\ UNCHANGED << adapter, state, timerVars, now, destroyed, via,
                        from_cache_arg, reads, power_source, pollVars >>

\* PollControl.async_configure: super().async_configure() returns, the coroutine ends
PollControl_async_configure_return ==
    /\ adapter = "poll"
    /\ pc = "poll_configure_super"
    /\ pc' = "idle"
    /\ signals' = << >>
    /\ lastEvent' = Event("configure_return", 0, 0)
    /\ UNCHANGED << adapter, state, timerVars, now, destroyed, via, from_cache_arg,
                    reads, power_source, pollVars >>

\* PollControl.cluster_command: synchronous, sends nothing itself
PollControl_cluster_command ==
    \E tsn \in Tsns, command_id \in PollCommandIds :
        LET cmd_name == client_command_name(command_id)
        IN  /\ adapter = "poll"
            /\ Len(events) + Configures < MaxPollCalls
            /\ events' = Append(events, cmd_name)
            /\ tasks' = IF spawns_task(cmd_name)
                        THEN Append(tasks, [tsn |-> tsn, pc |-> "created"])
                        ELSE tasks
            /\ net' = net
            /\ signals' = << >>
            /\ lastEvent' = Event("cluster_command", tsn, command_id)
            /\ UNCHANGED << adapter, state, timerVars, now, destroyed, coroVars,
                            power_source >>

\* the event loop starts a task: check_in_response runs to its first await
check_in_response_start ==
    \E i \in DOMAIN tasks :
        /\ adapter = "poll"
        /\ tasks[i].pc = "created"
        /\ net' = net \o first_requests(i, tasks[i].tsn)
        /\ tasks' = [tasks EXCEPT ![i].pc = "await_checkin_response"]
        /\ signals' = << >>
        /\ lastEvent' = Event("task_start", i, 0)
        /\ UNCHANGED << adapter, state, timerVars, now, destroyed, coroVars,
                        power_source, events >>

\* the acknowledgment completes: the task resumes and sends set_long_poll_interval
check_in_response_resume ==
    \E i \in DOMAIN tasks :
        /\ adapter = "poll"
        /\ tasks[i].pc = "await_checkin_response"
        /\ net' = net \o << Request(i, "checkin_response_done", << >>),
                            Request(i, "set_long_poll_interval", << LONG_POLL >>) >>
        /\ tasks' = [tasks EXCEPT ![i].pc = "await_set_long_poll_interval"]
        /\ signals' = << >>
        /\ lastEvent' = Event("task_resume", i, 0)
        /\ UNCHANGED << adapter, state, timerVars, now, destroyed, coroVars,
                        power_source, events >>

\* the acknowledgment raises: create_catching_task ends the task
check_in_response_raise ==
    \E i \in DOMAIN tasks :
        /\ adapter = "poll"
        /\ tasks[i].pc = "await_checkin_response"
        /\ net' = net
        /\ tasks' = [tasks EXCEPT ![i].pc = "failed"]
        /\ signals' = << >>
        /\ lastEvent' = Event("task_raise", i, 0)
        /\ UNCHANGED << adapter, state, timerVars, now, destroyed, coroVars,
                        power_source, events >>

\* set_long_poll_interval completes: the task ends
check_in_response_done ==
    \E i \in DOMAIN tasks :
        /\ adapter = "poll"
        /\ tasks[i].pc = "await_set_long_poll_interval"
        /\ net' = net
        /\ tasks' = [tasks EXCEPT ![i].pc = "done"]
        /\ signals' = << >>
        /\ lastEvent' = Event("task_done", i, 0)
        /\ UNCHANGED << adapter, state, timerVars, now, destroyed, coroVars,
                        power_source, events >>

\* set_long_poll_interval raises: create_catching_task ends the task
check_in_response_long_poll_raise ==
    \E i \in DOMAIN tasks :
        /\ adapter = "poll"
        /\ tasks[i].pc = "await_set_long_poll_interval"
        /\ net' = net
        /\ tasks' = [tasks EXCEPT ![i].pc = "failed"]
        /\ signals' = << >>
        /\ lastEvent' = Event("task_long_poll_raise", i, 0)
        /\ UNCHANGED << adapter, state, timerVars, now, destroyed, coroVars,
                        power_source, events >>

InitPoll == adapter = "poll" /\ InitCommon

NextPoll ==
    \/ PollControl_async_configure
    \/ PollControl_async_configure_written
    \/ PollControl_async_configure_return
    \/ PollControl_cluster_command
    \/ check_in_response_start
    \/ check_in_response_resume
    \/ check_in_response_raise
    \/ check_in_response_done
    \/ check_in_response_long_poll_raise

SpecPoll == InitPoll /\ [][NextPoll]_vars

(***************************************************************************)
(* Properties                                                              *)
(***************************************************************************)
OnSignal == << Signal(SIGNAL_ATTR_UPDATED, << ON_OFF, "on_off", PyTrue >>) >>
OffSignal == << Signal(SIGNAL_ATTR_UPDATED, << ON_OFF, "on_off", PyFalse >>) >>

\* the acceptance rule as the specification states it
AcceptedWhen(accept, st) == accept = 0 \/ (accept = 1 /\ st = PyTrue)

\* C1: an on_with_timed_off command is accepted exactly when accept-flag = 0, or
\* accept-flag = 1 and the tracked state is on; a command that is not accepted sends
\* no signal, leaves the tracked state unchanged and neither schedules nor cancels
\* an auto-off timer, whatever its on_time.
C1_TimedOffAcceptance ==
    [][ lastEvent'.op = "on_with_timed_off" =>
          IF AcceptedWhen(lastEvent'.a0, state)
          THEN signals' = OnSignal /\ state' = PyTrue
          ELSE /\ signals' = << >>
               /\ state' = state
               /\ UNCHANGED timerVars ]_vars

C1_Witness ==
    /\ lastEvent.op = "on_with_timed_off"
    /\ lastEvent.a0 = 1
    /\ lastEvent.a1 = 0
    /\ lastEvent.pre = PyFalse
    /\ state = PyFalse
    /\ off_listener # NoListener

\* C2: at most one auto-off timer is outstanding, and it is the one the handle names;
\* every scheduled call is outstanding, cancelled or has run, and a call that was
\* cancelled by a later accepted on_with_timed_off never runs.
C2_OneOutstandingTimer ==
    /\ Cardinality(timers) <= 1
    /\ \A t \in timers : t.id = off_listener
    /\ (off_listener # NoListener) => \E t \in timers : t.id = off_listener
    /\ fired \cap cancelled = {}
    /\ \A i \in 1..(next_id - 1) :
           (i \in fired) \/ (i \in cancelled) \/ (\E t \in timers : t.id = i)
    /\ Cardinality(fired) + Cardinality(cancelled) + Cardinality(timers) = next_id - 1

C2_Witness ==
    /\ 1 \in cancelled
    /\ 2 \in fired
    /\ lastEvent.op = "set_to_off"

\* C3: an accepted on_with_timed_off sends the on signal and sets the tracked state
\* to on; with on_time > 0 it schedules one auto-off on_time/10 seconds later
\* (on_time * 100 ms), with on_time = 0 it schedules none; a firing auto-off clears
\* the handle, sends the off signal and sets the tracked state to off.
C3_TimedOffSchedulesAutoOff ==
    /\ (lastEvent.op = "on_with_timed_off" /\ AcceptedWhen(lastEvent.a0, lastEvent.pre)) =>
           /\ signals = OnSignal
           /\ state = PyTrue
           /\ IF lastEvent.a1 > 0
              THEN /\ off_listener # NoListener
                   /\ timers = {[id |-> off_listener, due |-> now + lastEvent.a1 * 100]}
              ELSE /\ off_listener = NoListener
                   /\ timers = {}
    /\ lastEvent.op = "set_to_off" =>
           /\ off_listener = NoListener
           /\ signals = OffSignal
           /\ state = PyFalse
           /\ now = lastEvent.a1

C3_Witness ==
    /\ lastEvent.op = "on_with_timed_off"
    /\ lastEvent.a0 = 1
    /\ lastEvent.a1 = 50
    /\ lastEvent.pre = PyTrue
    /\ \E t \in timers : t.due = now + 5000

\* the rate a move command dispatches, as the specification states it
ClaimedMoveValue(mode, rate) ==
    LET magnitude == IF rate = 255 THEN 10 ELSE rate
    IN  IF mode = 0 THEN magnitude ELSE -magnitude

\* C4: a move (or move_with_on_off) command dispatches exactly one move-level signal
\* whose value is the rate argument, 10 in place of rate code 0xFF, positive when
\* mode = 0 and negative otherwise.
C4_MoveDispatchesSignedRate ==
    lastEvent.op \in {"move", "move_with_on_off"} =>
        signals = << Signal(SIGNAL_MOVE_LEVEL,
                            << ClaimedMoveValue(lastEvent.a0, lastEvent.a1) >>) >>

\* C5: every attribute report of the Power Configuration channel sends exactly one
\* signal: attribute-updated (id, name, value) if and only if the attribute is
\* battery_percentage_remaining, and otherwise state-attribute (name, value).
C5_PowerReportOneSignal ==
    lastEvent.op = "attribute_updated" =>
        /\ Len(signals) = 1
        /\ signals[1].kind \in {SIGNAL_ATTR_UPDATED, SIGNAL_STATE_ATTR}
        /\ signals[1].kind = SIGNAL_ATTR_UPDATED <=> lastEvent.a0 = 33
        /\ IF lastEvent.a0 = 33
           THEN /\ Len(signals[1].payload) = 3
                /\ signals[1].payload[1] = 33
                /\ signals[1].payload[2].s = "battery_percentage_remaining"
                /\ signals[1].payload[3] = lastEvent.a1
           ELSE /\ Len(signals[1].payload) = 2
                /\ signals[1].payload[1] = attribute_name(lastEvent.a0)
                /\ signals[1].payload[2] = lastEvent.a1

C5_Witness ==
    /\ lastEvent.op = "attribute_updated"
    /\ lastEvent.a0 = 33
    /\ signals[1].kind = SIGNAL_ATTR_UPDATED

\* the requests task i has sent, as positions of net
Sent(i, what) == { j \in DOMAIN net : net[j].task = i /\ net[j].ev = what }

\* C6: each checkin command spawns exactly one background task and the handler
\* returns without sending anything; other commands spawn none; a task sends the
\* acknowledgment (accept, timeout 8, the command's tsn) once, and sends
\* set_long_poll_interval(24) only after its acknowledgment has completed.
C6_CheckinHandshake ==
    /\ Len(tasks) = Cardinality({ k \in DOMAIN events : events[k].s = "checkin" })
    /\ (lastEvent.op = "cluster_command" /\ lastEvent.a1 = 0) =>
           /\ Len(tasks) > 0
           /\ tasks[Len(tasks)] = [tsn |-> lastEvent.a0, pc |-> "created"]
           /\ \A j \in DOMAIN net : net[j].task # Len(tasks)
    /\ \A i \in DOMAIN tasks :
           /\ Cardinality(Sent(i, "checkin_response")) <= 1
           /\ Cardinality(Sent(i, "set_long_poll_interval")) <= 1
           /\ \A j \in Sent(i, "checkin_response") :
                  net[j].args = << TRUE, 8, tasks[i].tsn >>
           /\ \A j \in Sent(i, "set_long_poll_interval") :
                  /\ net[j].args = << 24 >>
                  /\ \E k \in Sent(i, "checkin_response_done") :
                         /\ k < j
                         /\ \E m \in Sent(i, "checkin_response") : m < k

C6_Witness ==
    /\ Len(tasks) = 2
    /\ tasks[1].pc = "await_checkin_response"
    /\ tasks[2].pc = "done"

\* C7: once the owning device is removed no auto-off timer of the channel is
\* pending, and set_to_off does not run afterwards.
C7_TeardownCancelsTimer ==
    destroyed => /\ timers = {}
                 /\ off_listener = NoListener
                 /\ lastEvent.op # "set_to_off"

\* the running coroutine is inside async_initialize
InInitialize ==
    pc \in {"basic_read", "level_read", "power_read", "onoff_super", "onoff_read",
            "super"}

\* C8: every attribute read async_initialize(from_cache) issues carries the caller's
\* from_cache, and async_initialize runs only when it was called as such, never as
\* part of async_configure.
C8_InitializeUsesFromCache ==
    InInitialize =>
        /\ via = "initialize"
        /\ \A i \in DOMAIN reads : reads[i].from_cache = from_cache_arg

\* logical negation of a tracked state, unknown counting as off
Negation(st) == IF st = PyTrue THEN PyFalse ELSE PyTrue

\* C9: toggle sends one on_off signal carrying the negation of the tracked state
\* (unknown counts as off) and the tracked state becomes that negation; a second
\* toggle right after a first one restores the state the first one found, when that
\* was known; toggle leaves the auto-off timer alone.
C9_ToggleFlips ==
    [][ lastEvent'.op = "toggle" =>
          /\ signals' = << Signal(SIGNAL_ATTR_UPDATED,
                                  << ON_OFF, "on_off", Negation(state) >>) >>
          /\ state' = Negation(state)
          /\ UNCHANGED timerVars
          /\ (lastEvent.op = "toggle" /\ lastEvent.pre # PyNone) =>
                 state' = lastEvent.pre ]_vars

C9_Witness ==
    /\ lastEvent.op = "toggle"
    /\ lastEvent.pre = PyFalse
    /\ state = PyTrue
    /\ off_listener # NoListener

\* C10: the auto-off timer handle and the scheduled call change only in an accepted
\* on_with_timed_off and in the call's own firing; the firing happens at the time
\* the call was scheduled for, sets the tracked state to off and sends the off signal.
C10_TimerFrame ==
    [][ (off_listener' # off_listener \/ timers' # timers) =>
          \/ /\ lastEvent'.op = "on_with_timed_off"
             /\ AcceptedWhen(lastEvent'.a0, state)
          \/ /\ lastEvent'.op = "set_to_off"
             /\ off_listener' = NoListener
             /\ [id |-> lastEvent'.a0, due |-> now] \in timers
             /\ timers' = timers \ {[id |-> lastEvent'.a0, due |-> now]}
             /\ state' = PyFalse
             /\ signals' = OffSignal ]_vars

C10_Witness ==
    /\ lastEvent.op = "set_to_off"
    /\ lastEvent.pre = PyFalse
    /\ 1 \in fired
    /\ cancelled = {}
====
